---- MODULE Spec2Model ----
(***************************************************************************)
(* Model of the LangGraph weather / PDF-RAG pipeline (src/src/graph.py,    *)
(* src/src/weather.py, src/src/rag.py).                                    *)
(*                                                                         *)
(* Python strings are TLA+ strings, handled character by character with    *)
(* Len, SubSeq, Head, Tail and \o.  The typographic apostrophe of the two  *)
(* apology messages is written as an ASCII apostrophe.  An optional value  *)
(* (a reply's content, which may be None) is a tuple: <<>> is None and     *)
(* <<s>> is the string s.  The graph state of a run is a record whose      *)
(* DOMAIN is the set of keys the run's dict holds.                         *)
(***************************************************************************)
EXTENDS Integers, Sequences, FiniteSets, TLC

(***************************************************************************)
(* Python str primitives                                                   *)
(***************************************************************************)
UpperAZ == "ABCDEFGHIJKLMNOPQRSTUVWXYZ"
LowerAZ == "abcdefghijklmnopqrstuvwxyz"
Digits == "0123456789"

UpperLetters ==
    {"A", "B", "C", "D", "E", "F", "G", "H", "I", "J", "K", "L", "M",
     "N", "O", "P", "Q", "R", "S", "T", "U", "V", "W", "X", "Y", "Z"}
LowerLetters ==
    {"a", "b", "c", "d", "e", "f", "g", "h", "i", "j", "k", "l", "m",
     "n", "o", "p", "q", "r", "s", "t", "u", "v", "w", "x", "y", "z"}

\* Python's s[a-1:b]: the characters a..b of s, clipped to the string.
Slice(s, a, b) ==
    IF a > b \/ a > Len(s) \/ b < 1 THEN ""
    ELSE SubSeq(s, IF a < 1 THEN 1 ELSE a, IF b > Len(s) THEN Len(s) ELSE b)

CharAt(s, i) == IF i < 1 \/ i > Len(s) THEN "" ELSE SubSeq(s, i, i)

\* Position of the character c in an alphabet that holds it.
PosIn(c, alphabet) == CHOOSE i \in 1..Len(alphabet) : SubSeq(alphabet, i, i) = c

\* str.isspace() on one character (the ASCII whitespace a TLA+ string can hold).
IsSpace(c) == c \in {" ", "\t", "\n", "\r", "\f"}

IsLetter(c) == c \in UpperLetters \/ c \in LowerLetters

LowerChar(c) ==
    IF c \in UpperLetters THEN CharAt(LowerAZ, PosIn(c, UpperAZ)) ELSE c

UpperChar(c) ==
    IF c \in LowerLetters THEN CharAt(UpperAZ, PosIn(c, LowerAZ)) ELSE c

RECURSIVE Lower(_)
\* str.lower()
Lower(s) == IF s = "" THEN "" ELSE LowerChar(Head(s)) \o Lower(Tail(s))

RECURSIVE LStrip(_)
LStrip(s) == IF s # "" /\ IsSpace(Head(s)) THEN LStrip(Tail(s)) ELSE s

RECURSIVE RStrip(_)
RStrip(s) ==
    IF s # "" /\ IsSpace(CharAt(s, Len(s)))
    THEN RStrip(Slice(s, 1, Len(s) - 1))
    ELSE s

\* str.strip()
Strip(s) == RStrip(LStrip(s))

\* Python's `sub in s`
Contains(sub, s) ==
    \/ sub = ""
    \/ \E i \in 1..(Len(s) - Len(sub) + 1) : Slice(s, i, i + Len(sub) - 1) = sub

\* str.capitalize(): first character upper-cased, the rest lower-cased.
Capitalize(s) ==
    IF s = "" THEN "" ELSE UpperChar(Head(s)) \o Lower(Tail(s))

RECURSIVE TitleFrom(_, _)
\* str.title(): a letter is upper-cased when the previous character is not a
\* letter, lower-cased otherwise.
TitleFrom(s, prevLetter) ==
    IF s = "" THEN ""
    ELSE (IF ~IsLetter(Head(s)) THEN Head(s)
          ELSE IF prevLetter THEN LowerChar(Head(s)) ELSE UpperChar(Head(s)))
            \o TitleFrom(Tail(s), IsLetter(Head(s)))

Title(s) == TitleFrom(s, FALSE)

RECURSIVE NatStr(_)
\* str(n) for a natural number
NatStr(n) ==
    IF n < 10 THEN CharAt(Digits, n + 1)
    ELSE NatStr(n \div 10) \o CharAt(Digits, (n % 10) + 1)

\* f"{x:.1f}" for a non-negative number held in tenths (292 is 29.2).
Fmt1(tenths) == NatStr(tenths \div 10) \o "." \o NatStr(tenths % 10)

\* `x or ""` for an optional string: None and "" both give "".
OrEmpty(opt) == IF opt = <<>> THEN "" ELSE opt[1]

\* min of a non-empty set of integers
MinOf(S) == CHOOSE m \in S : \A n \in S : m <= n

\* Outcome of an outbound call: it returns a value or raises with a message.
Returned(v) == [raised |-> FALSE, value |-> v]
Raised(m) == [raised |-> TRUE, msg |-> m]

\* dict.get(key): <<>> (None) when the key is absent
Get(d, key) == IF key \in DOMAIN d THEN <<d[key]>> ELSE <<>>

(***************************************************************************)
(* src/src/weather.py                                                      *)
(***************************************************************************)
\* [a-zA-Z\s]
IsCityChar(c) == IsLetter(c) \/ IsSpace(c)

\* [\s\?\,\.]
IsTrailChar(c) == IsSpace(c) \/ c \in {"?", ",", "."}

\* The characters a..b of text are all [a-zA-Z\s], all \s, all [\s\?\,\.].
CityChars(text, a, b) == \A i \in a..b : IsCityChar(SubSeq(text, i, i))
Spaces(text, a, b) == \A i \in a..b : IsSpace(SubSeq(text, i, i))
TrailChars(text, a, b) == \A i \in a..b : IsTrailChar(SubSeq(text, i, i))

TimeWords == {"today", "now", "tomorrow", "weather", "forecast"}

\* text from position a on matches
\* (?:\s+(?:today|now|tomorrow|weather|forecast))?[\s\?\,\.]*$
TailMatches(text, a) ==
    \/ TrailChars(text, a, Len(text))
    \/ \E w \in 1..(Len(text) - a + 1), kw \in TimeWords :
          /\ Spaces(text, a, a + w - 1)
          /\ Slice(text, a + w, a + w + Len(kw) - 1) = kw
          /\ TrailChars(text, a + w + Len(kw), Len(text))

\* Pattern 1 matches at position i with a capture of n characters.
InPatternAt(text, i, n) ==
    /\ Slice(text, i, i + 2) = "in "
    /\ i + 2 + n <= Len(text)
    /\ CityChars(text, i + 3, i + 2 + n)
    /\ TailMatches(text, i + 3 + n)

\* Pattern 2, ([a-zA-Z\s]+?)\s+weather, at position i with a capture of n.
WeatherPatternAt(text, i, n) ==
    /\ i + n - 1 <= Len(text)
    /\ CityChars(text, i, i + n - 1)
    /\ \E w \in 1..(Len(text) - i - n + 1) :
          /\ Spaces(text, i + n, i + n + w - 1)
          /\ Slice(text, i + n + w, i + n + w + 6) = "weather"

\* re.search with a lazy group: the leftmost start that matches, and there the
\* shortest capture; <<>> when nothing matches, else <<group(1)>>.
InStarts(text) ==
    {i \in 1..Len(text) : \E n \in 1..Len(text) : InPatternAt(text, i, n)}

InCapture(text, i) ==
    Slice(text, i + 3,
          i + 2 + MinOf({m \in 1..Len(text) : InPatternAt(text, i, m)}))

SearchInAmong(text, starts) ==
    IF starts = {} THEN <<>> ELSE <<InCapture(text, MinOf(starts))>>

SearchIn(text) == SearchInAmong(text, InStarts(text))

WeatherStarts(text) ==
    {i \in 1..Len(text) : \E n \in 1..Len(text) : WeatherPatternAt(text, i, n)}

WeatherCapture(text, i) ==
    Slice(text, i,
          i - 1 + MinOf({m \in 1..Len(text) : WeatherPatternAt(text, i, m)}))

SearchWeatherAmong(text, starts) ==
    IF starts = {} THEN <<>> ELSE <<WeatherCapture(text, MinOf(starts))>>

SearchBeforeWeather(text) == SearchWeatherAmong(text, WeatherStarts(text))

\* Mutant of extract_city_name: the two patterns tried in the other order.
CityOfMatchesWeatherFirst(m1, m2, default_city) ==
    IF m2 # <<>> THEN Title(Strip(m2[1]))
    ELSE IF m1 # <<>> THEN Title(Strip(m1[1]))
    ELSE default_city

\* Lines 21-28: the first pattern that matched gives the city.
CityOfMatches(m1, m2, default_city) ==
    IF m1 # <<>> THEN Title(Strip(m1[1]))
    ELSE IF m2 # <<>> THEN Title(Strip(m2[1]))
    ELSE default_city

CityInText(text, default_city) ==
    CityOfMatches(SearchIn(text), SearchBeforeWeather(text), default_city)

extract_city_name(user_query, default_city) ==
    CityInText(Lower(user_query), default_city)

\* The questions the runs are invoked with.
Questions ==
    {"What is the weather in Paris?", "What is the capital of France?"}

\* The queries fetch_weather_for_city is called with directly.
CityQueries ==
    {"What is the weather in Paris today?",
     "tell me the weather in New York now",
     "Hyderabad weather now",
     "What's up?",
     "what is the weather in hyderabad?",
     "Berlin weather",
     "weather in  Pune",
     " Delhi weather",
     "WEATHER",
     "rain in 2024"}

\* extract_city_name(q, "Hyderabad") for the questions asked, computed once.
CityTable ==
    [q \in Questions \cup CityQueries |-> extract_city_name(q, "Hyderabad")]

\* A JSON number (held in tenths) or a JSON string, as summarise_onecall's
\* format specs tell them apart.
Num(tenths) == [t |-> "num", n |-> tenths]
Str(text) == [t |-> "str", s |-> text]

\* The exception summarise_onecall's try block raises on weather_json, as the
\* optional message str(e): <<>> when the block runs through.
CurrentError(current) ==
    IF "weather" \notin DOMAIN current THEN <<"'weather'">>
    ELSE IF Len(current.weather) = 0 THEN <<"list index out of range">>
    ELSE IF "description" \notin DOMAIN current.weather[1]
         THEN <<"'description'">>
    ELSE IF "temp" \notin DOMAIN current THEN <<"'temp'">>
    ELSE IF "feels_like" \notin DOMAIN current THEN <<"'feels_like'">>
    ELSE IF "humidity" \notin DOMAIN current THEN <<"'humidity'">>
    ELSE IF "wind_speed" \notin DOMAIN current THEN <<"'wind_speed'">>
    ELSE IF current.temp.t # "num" \/ current.feels_like.t # "num"
         THEN <<"Unknown format code 'f' for object of type 'str'">>
    ELSE <<>>

SummariseError(weather_json) ==
    IF "current" \notin DOMAIN weather_json THEN <<"'current'">>
    ELSE CurrentError(weather_json.current)

ParseApology == "Sorry, I couldn't parse the weather data correctly: "

\* Lines 68-71: the sentence for well-formed current conditions
SummaryOf(current, city_name) ==
    "Current weather in " \o city_name \o ": "
      \o Fmt1(current.temp.n) \o "degC (feels like "
      \o Fmt1(current.feels_like.n) \o "degC), humidity "
      \o NatStr(current.humidity) \o "%, "
      \o Capitalize(current.weather[1].description) \o ", wind "
      \o Fmt1(current.wind_speed) \o " m/s."

SummaryOrApology(e, weather_json, city_name) ==
    IF e # <<>> THEN ParseApology \o e[1]
    ELSE SummaryOf(weather_json.current, city_name)

summarise_onecall(weather_json, city_name) ==
    SummaryOrApology(SummariseError(weather_json), weather_json, city_name)

\* `not data or len(data) == 0` on a geocoding response
GeoEmpty(data) ==
    CASE data.py = "none" -> TRUE
      [] data.py = "list" -> Len(data.items) = 0
      [] data.py = "tuple" -> Len(data.members) = 0
      [] data.py = "dict" -> DOMAIN data.d = {}
      [] OTHER -> FALSE

\* The shape test of fetch_weather_for_city: <<lat, lon>> (each an optional
\* number), or <<>> when the response has neither expected shape.
GeoCoordinates(data) ==
    IF data.py = "tuple" /\ Len(data.members) = 2
    THEN <<<<data.members[1]>>, <<data.members[2]>>>>
    ELSE IF data.py = "list" /\ Len(data.items) > 0
              /\ data.items[1].py = "dict"
         THEN <<Get(data.items[1].d, "lat"), Get(data.items[1].d, "lon")>>
         ELSE <<>>

\* The outbound calls, as they are logged per run.
GeocodeCall(city, hint, out) ==
    [svc |-> "geocode", city |-> city, country_hint |-> hint, out |-> out]
OnecallCall(lat, lon, out) ==
    [svc |-> "onecall", lat |-> lat, lon |-> lon, out |-> out]

\* What requests.get(url, timeout=10) raises when the read times out.
TransportError == "ReadTimeout"

\* Lines 98-99, with the coordinates ll: the current-conditions call and the
\* summary of what it returned.
FetchAndSummarise(city, g, ll, wxOut) ==
    IF wxOut.raised
    THEN [raised |-> TRUE, exc |-> TransportError, msg |-> wxOut.msg,
          calls |-> <<g, OnecallCall(ll[1], ll[2], wxOut)>>]
    ELSE [raised |-> FALSE,
          calls |-> <<g, OnecallCall(ll[1], ll[2], wxOut)>>,
          value |-> summarise_onecall(wxOut.value, city)]

\* Lines 84-99, with the extracted city and the logged geocoding call g.
FetchForCity(city, country_hint, g, geoOut, wxOut) ==
    IF geoOut.raised
    THEN [raised |-> TRUE, exc |-> TransportError, msg |-> geoOut.msg,
          calls |-> <<g>>]
    ELSE IF GeoEmpty(geoOut.value)
    THEN [raised |-> TRUE, exc |-> "ValueError", calls |-> <<g>>,
          msg |-> "Could not geocode city: " \o city \o "," \o country_hint]
    ELSE IF GeoCoordinates(geoOut.value) = <<>>
    THEN [raised |-> TRUE, exc |-> "ValueError", calls |-> <<g>>,
          msg |-> "Unexpected geocode response format: " \o geoOut.value.repr]
    ELSE FetchAndSummarise(city, g, GeoCoordinates(geoOut.value), wxOut)

GeocodeThenFetch(city, country_hint, geoOut, wxOut) ==
    FetchForCity(city, country_hint, GeocodeCall(city, country_hint, geoOut),
                 geoOut, wxOut)

\* fetch_weather_for_city with the outcomes of its two outbound calls: what it
\* returns or raises, and the calls it made.
fetch_weather_for_city(user_query, default_city, country_hint, geoOut, wxOut) ==
    GeocodeThenFetch(IF user_query \in DOMAIN CityTable /\ default_city = "Hyderabad"
                        THEN CityTable[user_query]
                        ELSE extract_city_name(user_query, default_city),
                     country_hint, geoOut, wxOut)

(***************************************************************************)
(* src/src/rag.py                                                          *)
(***************************************************************************)
\* A langchain Document
Doc(text) == [page_content |-> text]

\* The k of rag_node's retrieve_context call (graph.py)
RagK == 5

\* The indexes the pipeline may be built on: empty, one blank passage, and
\* more than RagK passages with a repeated one and an empty one.
Stores ==
    {<<>>,
     <<Doc(" \n")>>,
     <<Doc("The Eiffel Tower is in Paris."), Doc("The Colosseum is in Rome."),
       Doc(""), Doc("The Eiffel Tower is in Paris."), Doc("Rome"),
       Doc("Paris is the capital of France."), Doc("x")>>}

Abs(n) == IF n < 0 THEN -n ELSE n

\* The index's distance between a query and a passage.  The embedding and the
\* metric belong to the vector database; a deterministic stand-in.
Distance(query, doc) == Abs(Len(query) - Len(doc.page_content))

\* The passages the index ranks ahead of passage i for a query: the nearer
\* ones, and among the equally near the ones inserted earlier.
Ahead(store, query, i) ==
    {j \in DOMAIN store :
        \/ Distance(query, store[j]) < Distance(query, store[i])
        \/ /\ Distance(query, store[j]) = Distance(query, store[i])
           /\ j < i}

\* The position in the store of the passage ranked n-th.
Ranked(store, query, n) ==
    CHOOSE i \in DOMAIN store : Cardinality(Ahead(store, query, i)) = n - 1

\* vector_store.similarity_search(query, k): the k nearest passages, nearest
\* first.
similarity_search(store, query, k) ==
    [n \in 1..(IF k < Len(store) THEN k ELSE Len(store)) |->
        store[Ranked(store, query, n)]]

RECURSIVE Join(_, _)
\* sep.join(parts)
Join(sep, parts) ==
    IF Len(parts) = 0 THEN ""
    ELSE IF Len(parts) = 1 THEN parts[1]
    ELSE parts[1] \o sep \o Join(sep, Tail(parts))

\* Mutant of retrieve_context: the passages joined by a single newline.
JoinContentsNewline(docs) ==
    Join("\n", [i \in 1..Len(docs) |-> docs[i].page_content])

\* retrieve_context on the documents the search returned
JoinContents(docs) ==
    Join("\n\n", [i \in 1..Len(docs) |-> docs[i].page_content])

\* similarity_search(s, q, RagK) for the indexes and the questions of the
\* runs, computed once.
SearchTable ==
    [s \in Stores, q \in Questions |-> similarity_search(s, q, RagK)]

\* Line 137: docs = vector_store.similarity_search(query, k=k)
SearchDocs(store, query, k) ==
    IF <<store, query>> \in DOMAIN SearchTable /\ k = RagK
    THEN SearchTable[store, query]
    ELSE similarity_search(store, query, k)

retrieve_context(store, query, k) ==
    JoinContents(SearchDocs(store, query, k))

(***************************************************************************)
(* src/src/graph.py: the node functions                                    *)
(***************************************************************************)
ClassifierPrompt ==
    "You are a classifier. If the user is asking about the weather, "
      \o "output 'weather'. Otherwise output 'pdf'. Return only that word."

ContextPromptHead ==
    "You are a helpful assistant. "
      \o "The following context contains the exact answer to the user's question. "
      \o "Use the context directly and DO NOT reply with 'I don't know'. "
      \o "Respond concisely.\n\n"
      \o "Context:\n"

PlainPrompt ==
    "You are a helpful assistant. Answer the question to the best of your ability."

FetchApology == "Sorry, I couldn't fetch the weather right now: "

\* llm.invoke([SystemMessage(system), HumanMessage(human)]) made by `node`
LlmCall(node, system, human, out) ==
    [svc |-> "llm", node |-> node,
     messages |-> <<[role |-> "system", content |-> system],
                    [role |-> "human", content |-> human]>>,
     out |-> out]

SearchCall(query, k, out) ==
    [svc |-> "search", query |-> query, k |-> k, out |-> out]

\* What a node function does: it raises, or it returns an update of the state.
NodeRaises(m, made) == [raised |-> TRUE, msg |-> m, calls |-> made]
NodeReturns(upd, made) == [raised |-> FALSE, update |-> upd, calls |-> made]

\* Mutant of the classification: the reply must be the word itself.
RouteOfReplyExact(content) ==
    IF Lower(Strip(OrEmpty(content))) = "weather" THEN "weather" ELSE "pdf"

\* Lines 56-57 of decision_node: the route of a reply's content.
RouteOfReply(content) ==
    IF Contains("weather", Lower(Strip(OrEmpty(content))))
    THEN "weather"
    ELSE "pdf"

\* Mutant of decision_node: a failed model call falls back to pdf.
decision_node_fallback(st, llmOut) ==
    NodeReturns([route |-> IF llmOut.raised THEN "pdf"
                           ELSE RouteOfReply(llmOut.value)],
                <<LlmCall("decision", ClassifierPrompt, st.question, llmOut)>>)

decision_node(st, llmOut) ==
    IF llmOut.raised
    THEN NodeRaises(llmOut.msg,
                    <<LlmCall("decision", ClassifierPrompt, st.question, llmOut)>>)
    ELSE NodeReturns([route |-> RouteOfReply(llmOut.value)],
                     <<LlmCall("decision", ClassifierPrompt, st.question, llmOut)>>)

\* weather_node's arguments to fetch_weather_for_city
DefaultCity == "Hyderabad"
CountryHint == "IN"

\* Mutant of weather_node: no try/except around fetch_weather_for_city.
WeatherUpdateNoCatch(f) ==
    IF f.raised THEN NodeRaises(f.msg, f.calls)
    ELSE NodeReturns([context |-> f.value, route |-> "weather"], f.calls)

\* Mutant of weather_node: the route label of the other branch.
WeatherUpdateRoutePdf(f) ==
    NodeReturns([context |-> IF f.raised THEN FetchApology \o f.msg ELSE f.value,
                 route |-> "pdf"],
                f.calls)

\* Mutant of weather_node: the exception is swallowed without a message.
WeatherUpdateSilent(f) ==
    NodeReturns([context |-> IF f.raised THEN "" ELSE f.value,
                 route |-> "weather"],
                f.calls)

\* Lines 65-73, with what fetch_weather_for_city did
WeatherUpdate(f) ==
    NodeReturns([context |-> IF f.raised THEN FetchApology \o f.msg ELSE f.value,
                 route |-> "weather"],
                f.calls)

weather_node(st, geoOut, wxOut) ==
    WeatherUpdate(fetch_weather_for_city(st.question, DefaultCity, CountryHint,
                                         geoOut, wxOut))

SearchError == "ResponseHandlingException: vector search failed"

\* `text or ""`
RagContext(text) == IF text = "" THEN "" ELSE text

rag_node(st, store, searchRaises) ==
    IF searchRaises
    THEN NodeRaises(SearchError,
                    <<SearchCall(st.question, RagK, Raised(SearchError))>>)
    ELSE NodeReturns(
            [context |-> RagContext(retrieve_context(store, st.question, RagK)),
             route |-> "pdf"],
            <<SearchCall(st.question, RagK,
                         Returned(SearchDocs(store, st.question, RagK)))>>)

\* Mutant of answer_node's test: `if context:` instead of `if context.strip():`
PromptForNoStrip(context) ==
    IF context # ""
    THEN ContextPromptHead \o context \o "\n\n"
    ELSE PlainPrompt

\* Lines 87-98 of answer_node: the system prompt for a context
PromptFor(context) ==
    IF Strip(context) # ""
    THEN ContextPromptHead \o context \o "\n\n"
    ELSE PlainPrompt

\* Line 84 and the prompt: `state.get("context") or ""`
SystemPrompt(st) == PromptFor(OrEmpty(Get(st, "context")))

answer_node(st, llmOut) ==
    IF llmOut.raised
    THEN NodeRaises(llmOut.msg,
                    <<LlmCall("answer", SystemPrompt(st), st.question, llmOut)>>)
    ELSE NodeReturns([answer |-> Strip(OrEmpty(llmOut.value))],
                     <<LlmCall("answer", SystemPrompt(st), st.question, llmOut)>>)

(***************************************************************************)
(* src/src/graph.py: the wiring                                            *)
(***************************************************************************)
\* The entry point
EntryPoint == "decision"

\* Mutants of the branch table: the two targets exchanged; pdf sent straight
\* to the answer node.
BranchesSwapped == [weather |-> "rag", pdf |-> "weather"]
BranchesSkipRag == [weather |-> "weather", pdf |-> "answer"]

\* add_conditional_edges("decision", route_edge, {"weather": ..., "pdf": ...})
Branches == [weather |-> "weather", pdf |-> "rag"]

\* Mutant of the edges: rag's edge leads to a node that was never added.
EdgesRagDangling == [weather |-> "answer", rag |-> "rerank", answer |-> "END"]

\* add_edge(weather, answer), add_edge(rag, answer), add_edge(answer, END)
Edges == [weather |-> "answer", rag |-> "answer", answer |-> "END"]

\* route_edge, then the lookup of its result among the branches: the next node,
\* or <<>> for the KeyError of a missing or unrecognised route.
route_edge(st) ==
    IF "route" \notin DOMAIN st THEN <<>>
    ELSE IF st.route \notin DOMAIN Branches THEN <<>>
    ELSE <<Branches[st.route]>>

\* The state after a node's update: the returned keys overwrite.
Merge(st, upd) ==
    [key \in DOMAIN st \cup DOMAIN upd |->
        IF key \in DOMAIN upd THEN upd[key] ELSE st[key]]

(***************************************************************************)
(* The collaborators' possible behaviours                                  *)
(***************************************************************************)
Runs == {"r1", "r2"}

\* Contents of the model's reply to the classifier call (<<>> is None).
DecisionReplies ==
    {<<>>, <<"">>, <<"weather">>, <<" Weather.\n">>, <<"pdf">>, <<"weathe r">>}

\* Contents of the model's reply to the answer call.
AnswerReplies == {<<>>, <<" \n">>, <<" Paris is the capital of France.\n">>}

LlmError == "APIConnectionError: Connection error."

LlmOutcomes(replies) == {Raised(LlmError)} \cup {Returned(c) : c \in replies}

\* Geocoding responses: resp.json() values, and the pair a test double gives.
GeoHit ==
    [py |-> "list", repr |-> "[{'lat': 48.9, 'lon': 2.3}]",
     items |-> <<[py |-> "dict", d |-> [lat |-> 489, lon |-> 23]]>>]
GeoPair == [py |-> "tuple", repr |-> "(17.4, 78.5)", members |-> <<174, 785>>]
GeoNoMatch == [py |-> "list", repr |-> "[]", items |-> <<>>]
GeoNoCoordinates ==
    [py |-> "list", repr |-> "[{'name': 'Paris'}]",
     items |-> <<[py |-> "dict", d |-> [name |-> "Paris"]]>>]
GeoErrorBody ==
    [py |-> "dict", repr |-> "{'cod': 401, 'message': 'Invalid API key'}",
     d |-> [cod |-> 401, message |-> "Invalid API key"]]

GeoOutcomes ==
    {Raised("HTTPSConnectionPool: Read timed out."),
     Returned(GeoNoMatch), Returned(GeoErrorBody),
     Returned(GeoHit), Returned(GeoPair), Returned(GeoNoCoordinates)}

\* Current-conditions responses
WxGood ==
    [current |-> [temp |-> Num(292), feels_like |-> Num(315), humidity |-> 61,
                  wind_speed |-> 51,
                  weather |-> <<[description |-> "scattered clouds"]>>]]
WxErrorBody == [cod |-> 401, message |-> "Invalid API key"]
WxTextTemp ==
    [current |-> [temp |-> Str("29.2"), feels_like |-> Num(315),
                  humidity |-> 61, wind_speed |-> 51,
                  weather |-> <<[description |-> "scattered clouds"]>>]]

OnecallOutcomes ==
    {Raised("HTTPSConnectionPool: Read timed out."),
     Returned(WxGood), Returned(WxErrorBody), Returned(WxTextTemp)}

(***************************************************************************)
(* The runs of one compiled pipeline                                       *)
(***************************************************************************)
VARIABLES
    vector_store,   \* the index handle given to build_pipeline
    state,          \* state[r]: the graph state (a dict) of run r
    pc,             \* pc[r]: the node run r is about to execute, END or failed
    trace,          \* trace[r]: the nodes run r has executed, in order
    writes,         \* writes[r]: the updates the nodes of run r returned
    calls,          \* calls[r]: the outbound calls run r has made
    error           \* error[r]: <<>> or the exception pipeline.invoke raised

vars == <<vector_store, state, pc, trace, writes, calls, error>>

\* build_pipeline(llm, vector_store), then pipeline.invoke({"question": q})
Init ==
    /\ vector_store \in Stores
    /\ state \in [Runs -> {[question |-> q] : q \in Questions}]
    /\ pc = [r \in Runs |-> EntryPoint]
    /\ trace = [r \in Runs |-> <<>>]
    /\ writes = [r \in Runs |-> <<>>]
    /\ calls = [r \in Runs |-> <<>>]
    /\ error = [r \in Runs |-> <<>>]

\* Mutant of the execution of a node: one state record for all the runs of
\* the compiled pipeline.
ExecutesSharedRecord(r, node, res, next) ==
    /\ trace' = [trace EXCEPT ![r] = Append(@, node)]
    /\ calls' = [calls EXCEPT ![r] = @ \o res.calls]
    /\ IF res.raised
       THEN /\ pc' = [pc EXCEPT ![r] = "failed"]
            /\ error' = [error EXCEPT ![r] = <<res.msg>>]
            /\ UNCHANGED <<state, writes>>
       ELSE /\ pc' = [pc EXCEPT ![r] = next]
            /\ state' = [o \in Runs |-> Merge(state[o], res.update)]
            /\ writes' = [writes EXCEPT
                            ![r] = Append(@, [node |-> node, update |-> res.update])]
            /\ UNCHANGED error
    /\ UNCHANGED vector_store

\* Run r executes `node`, which did `res`; `next` is the node after it.
Executes(r, node, res, next) ==
    /\ trace' = [trace EXCEPT ![r] = Append(@, node)]
    /\ calls' = [calls EXCEPT ![r] = @ \o res.calls]
    /\ IF res.raised
       THEN /\ pc' = [pc EXCEPT ![r] = "failed"]
            /\ error' = [error EXCEPT ![r] = <<res.msg>>]
            /\ UNCHANGED <<state, writes>>
       ELSE /\ pc' = [pc EXCEPT ![r] = next]
            /\ state' = [state EXCEPT ![r] = Merge(@, res.update)]
            /\ writes' = [writes EXCEPT
                            ![r] = Append(@, [node |-> node, update |-> res.update])]
            /\ UNCHANGED error
    /\ UNCHANGED vector_store

RunDecision(r) ==
    /\ pc[r] = "decision"
    /\ \E out \in LlmOutcomes(DecisionReplies) :
          \E res \in {decision_node(state[r], out)} :
             Executes(r, "decision", res, "branch")

\* The conditional edge after decision
RunRouteEdge(r) ==
    /\ pc[r] = "branch"
    /\ LET target == route_edge(state[r]) IN
       IF target = <<>>
       THEN /\ pc' = [pc EXCEPT ![r] = "failed"]
            /\ error' = [error EXCEPT ![r] = <<"KeyError">>]
       ELSE /\ pc' = [pc EXCEPT ![r] = target[1]]
            /\ UNCHANGED error
    /\ UNCHANGED <<vector_store, state, trace, writes, calls>>

RunWeather(r) ==
    /\ pc[r] = "weather"
    /\ \E geoOut \in GeoOutcomes, wxOut \in OnecallOutcomes :
          \E res \in {weather_node(state[r], geoOut, wxOut)} :
             Executes(r, "weather", res, Edges["weather"])

RunRag(r) ==
    /\ pc[r] = "rag"
    /\ \E searchRaises \in BOOLEAN :
          \E res \in {rag_node(state[r], vector_store, searchRaises)} :
             Executes(r, "rag", res, Edges["rag"])

RunAnswer(r) ==
    /\ pc[r] = "answer"
    /\ \E out \in LlmOutcomes(AnswerReplies) :
          \E res \in {answer_node(state[r], out)} :
             Executes(r, "answer", res, Edges["answer"])

Step(r) ==
    \/ RunDecision(r)
    \/ RunRouteEdge(r)
    \/ RunWeather(r)
    \/ RunRag(r)
    \/ RunAnswer(r)

Next == \E r \in Runs : Step(r)

Spec == Init /\ [][Next]_vars

\* Every node a run has started completes: each outbound call returns or raises.
FairSpec == Spec /\ \A r \in Runs : WF_vars(Step(r))

(***************************************************************************)
(* fetch_weather_for_city called on its own, with its default arguments    *)
(***************************************************************************)
\* The defaults of fetch_weather_for_city's signature
SignatureCity == "Hyderabad"
SignatureHint == "IN"

FetchInit ==
    /\ vector_store = <<>>
    /\ state \in [Runs -> {[question |-> q] : q \in CityQueries}]
    /\ pc = [r \in Runs |-> "fetch"]
    /\ trace = [r \in Runs |-> <<>>]
    /\ writes = [r \in Runs |-> <<>>]
    /\ calls = [r \in Runs |-> <<>>]
    /\ error = [r \in Runs |-> <<>>]

\* What the caller of fetch_weather_for_city sees: the exception, or the
\* summary it returned.
FetchOutcome(f) ==
    IF f.raised
    THEN [raised |-> TRUE, exc |-> f.exc, msg |-> f.msg, calls |-> f.calls]
    ELSE NodeReturns([summary |-> f.value], f.calls)

\* weather.fetch_weather_for_city(query)
CallFetchWeather(r) ==
    /\ pc[r] = "fetch"
    /\ \E geoOut \in GeoOutcomes, wxOut \in OnecallOutcomes :
          \E res \in {FetchOutcome(
                         fetch_weather_for_city(state[r].question, SignatureCity,
                                                SignatureHint, geoOut, wxOut))} :
             /\ trace' = [trace EXCEPT ![r] = Append(@, "fetch_weather_for_city")]
             /\ calls' = [calls EXCEPT ![r] = @ \o res.calls]
             /\ IF res.raised
                THEN /\ pc' = [pc EXCEPT ![r] = "failed"]
                     /\ error' = [error EXCEPT ![r] = <<res.exc, res.msg>>]
                     /\ UNCHANGED writes
                ELSE /\ pc' = [pc EXCEPT ![r] = "returned"]
                     /\ writes' = [writes EXCEPT
                                     ![r] = Append(@, [node |-> "fetch_weather_for_city",
                                                       update |-> res.update])]
                     /\ UNCHANGED error
             /\ UNCHANGED <<vector_store, state>>

FetchNext == \E r \in Runs : CallFetchWeather(r)

FetchSpec == FetchInit /\ [][FetchNext]_vars

(***************************************************************************)
(* What the claims speak of                                                *)
(***************************************************************************)
HasKey(r, key) == key \in DOMAIN state[r]

Executed(r, node) == \E i \in DOMAIN trace[r] : trace[r][i] = node

\* The positions in calls[r] of the calls of a service, of a node's model call.
CallsOf(r, svc) == {i \in DOMAIN calls[r] : calls[r][i].svc = svc}
LlmCallsOf(r, node) == {i \in CallsOf(r, "llm") : calls[r][i].node = node}

\* The one call at the positions S (a singleton).
TheCall(r, S) == calls[r][CHOOSE i \in S : TRUE]

\* The positions in writes[r] of the updates that hold a key.
WritesOf(r, key) == {i \in DOMAIN writes[r] : key \in DOMAIN writes[r][i].update}

IsPrefix(s, t) == Len(s) <= Len(t) /\ SubSeq(t, 1, Len(s)) = s

\* Some character of s is not whitespace.
HasInk(s) == \E i \in 1..Len(s) : ~IsSpace(SubSeq(s, i, i))

\* s occurs in t whatever the case of t's letters.
OccursAnyCase(s, t) ==
    \E i \in 1..(Len(t) - Len(s) + 1) : Lower(SubSeq(t, i, i + Len(s) - 1)) = s

WeatherPath == <<"decision", "weather", "answer">>
RagPath == <<"decision", "rag", "answer">>

(***************************************************************************)
(* C1: the nodes a run executes are a prefix of decision, weather, answer  *)
(* or of decision, rag, answer; the node after decision is weather exactly *)
(* when decision wrote the route "weather" and rag exactly when it wrote   *)
(* "pdf"; and the route of a finished run is the one decision wrote.       *)
(***************************************************************************)
DecidedRoute(r) == writes[r][1].update.route

C1_PathFollowsRoute ==
    \A r \in Runs :
       /\ IsPrefix(trace[r], WeatherPath) \/ IsPrefix(trace[r], RagPath)
       /\ Len(trace[r]) >= 1 => trace[r][1] = "decision"
       /\ Len(trace[r]) >= 2 =>
             /\ writes[r][1].node = "decision"
             /\ trace[r][2] = "weather" <=> DecidedRoute(r) = "weather"
             /\ trace[r][2] = "rag" <=> DecidedRoute(r) = "pdf"
       /\ pc[r] = "END" => state[r].route = DecidedRoute(r)

C1_BothPathsRun ==
    /\ pc["r1"] = "END" /\ trace["r1"] = WeatherPath
    /\ state["r1"].route = "weather"
    /\ pc["r2"] = "END" /\ trace["r2"] = RagPath
    /\ state["r2"].route = "pdf"

(***************************************************************************)
(* C2: in every state of a run Route is set before Context and Context     *)
(* before Answer (a state with Answer has Context, a state with Context    *)
(* has Route, and the updates were returned in that order); a run whose    *)
(* Answer is set is at END, and no step changes anything of that run.      *)
(***************************************************************************)
C2_SetInOrder(r) ==
    /\ HasKey(r, "answer") => HasKey(r, "context")
    /\ HasKey(r, "context") => HasKey(r, "route")
    /\ \A i \in WritesOf(r, "context") : \E j \in WritesOf(r, "route") : j < i
    /\ \A i \in WritesOf(r, "answer") : \E j \in WritesOf(r, "context") : j < i
    /\ HasKey(r, "answer") => pc[r] = "END"

C2_RunIsOver(r) ==
    HasKey(r, "answer") =>
       /\ state'[r] = state[r]
       /\ pc'[r] = pc[r]
       /\ trace'[r] = trace[r]
       /\ writes'[r] = writes[r]
       /\ calls'[r] = calls[r]
       /\ error'[r] = error[r]

C2_FieldOrder ==
    /\ [](\A r \in Runs : C2_SetInOrder(r))
    /\ [][\A r \in Runs : C2_RunIsOver(r)]_vars

\* One run has its Answer while the other is still to execute its nodes.
C2_AnsweredWhileOtherRuns ==
    /\ HasKey("r1", "answer") /\ HasKey("r1", "context") /\ HasKey("r1", "route")
    /\ pc["r2"] = "rag" /\ HasKey("r2", "route") /\ ~HasKey("r2", "context")

(***************************************************************************)
(* C3: whatever the model replies to the classifier call (None, empty,     *)
(* anything else), decision completes and writes the route "weather" when  *)
(* "weather" occurs in the reply in whatever case and "pdf" otherwise; the *)
(* conditional edge then reads a route among weather and pdf, and no run   *)
(* fails with the KeyError of the branch.                                  *)
(***************************************************************************)
C3_RouteOfAnyReply ==
    \A r \in Runs :
       /\ \A i \in LlmCallsOf(r, "decision") :
             ~calls[r][i].out.raised =>
                /\ Len(writes[r]) >= 1
                /\ writes[r][1] =
                      [node |-> "decision",
                       update |->
                          [route |->
                              IF OccursAnyCase("weather",
                                               OrEmpty(calls[r][i].out.value))
                              THEN "weather" ELSE "pdf"]]
                /\ Len(trace[r]) = 1 =>
                      pc[r] \in {"branch", "weather", "rag"} /\ error[r] = <<>>
       /\ pc[r] = "branch" =>
             HasKey(r, "route") /\ state[r].route \in {"weather", "pdf"}
       /\ error[r] # <<"KeyError">>

\* A None reply was routed to pdf, a padded capitalised one to weather, and
\* both runs are past the branch.
C3_NoneAndPaddedReplies ==
    /\ LlmCallsOf("r1", "decision") # {}
    /\ TheCall("r1", LlmCallsOf("r1", "decision")).out = Returned(<<>>)
    /\ pc["r1"] = "rag"
    /\ LlmCallsOf("r2", "decision") # {}
    /\ TheCall("r2", LlmCallsOf("r2", "decision")).out = Returned(<<" Weather.\n">>)
    /\ pc["r2"] = "weather"

(***************************************************************************)
(* C4: a run that executes weather makes one geocoding call and at most    *)
(* one current-conditions call, and weather always returns its update, so  *)
(* the run goes on to answer.  When the geocoding call raised, returned    *)
(* nothing or returned another shape, or the current-conditions call       *)
(* raised, Context is the fetch apology followed by the exception's        *)
(* message; when the current conditions could not be parsed, Context is    *)
(* the parse apology followed by the detail.  The answer node's prompt     *)
(* embeds that Context.                                                    *)
(***************************************************************************)
GeoOf(r) == TheCall(r, CallsOf(r, "geocode"))
WxOf(r) == TheCall(r, CallsOf(r, "onecall"))

\* The apology a run's weather calls ask for: <<>> when none failed.
C4_GeocodeFailure(geo) ==
    IF geo.out.raised THEN <<FetchApology \o geo.out.msg>>
    ELSE IF geo.out.value = GeoNoMatch
    THEN <<FetchApology \o "Could not geocode city: " \o geo.city \o ",IN">>
    ELSE IF geo.out.value = GeoErrorBody
    THEN <<FetchApology \o "Unexpected geocode response format: "
              \o "{'cod': 401, 'message': 'Invalid API key'}">>
    ELSE <<>>

C4_OnecallFailure(wx) ==
    IF wx.out.raised THEN <<FetchApology \o wx.out.msg>>
    ELSE IF wx.out.value = WxErrorBody THEN <<ParseApology \o "'current'">>
    ELSE IF wx.out.value = WxTextTemp
    THEN <<ParseApology \o "Unknown format code 'f' for object of type 'str'">>
    ELSE <<>>

C4_Failure(r) ==
    IF C4_GeocodeFailure(GeoOf(r)) # <<>> THEN C4_GeocodeFailure(GeoOf(r))
    ELSE IF CallsOf(r, "onecall") = {} THEN <<>>
    ELSE C4_OnecallFailure(WxOf(r))

C4_ApologyReachesAnswer(r, apology) ==
    /\ writes[r][2].update.context = apology
    /\ state[r].context = apology
    /\ Executed(r, "answer") =>
          /\ LlmCallsOf(r, "answer") # {}
          /\ TheCall(r, LlmCallsOf(r, "answer")).messages[1].content
                = ContextPromptHead \o apology \o "\n\n"

C4_WeatherFailuresBecomeContext ==
    \A r \in Runs :
       Executed(r, "weather") =>
          /\ Cardinality(CallsOf(r, "geocode")) = 1
          /\ Cardinality(CallsOf(r, "onecall")) <= 1
          /\ Len(writes[r]) >= 2 /\ writes[r][2].node = "weather"
          /\ Len(trace[r]) = 2 => pc[r] = "answer" /\ error[r] = <<>>
          /\ C4_GeocodeFailure(GeoOf(r)) # <<>> => CallsOf(r, "onecall") = {}
          /\ C4_GeocodeFailure(GeoOf(r)) = <<>> => CallsOf(r, "onecall") # {}
          /\ C4_Failure(r) # <<>> => C4_ApologyReachesAnswer(r, C4_Failure(r)[1])

\* One run's geocoding call raised, the other's current conditions did not
\* parse, and both went through answer.
C4_RaisedAndUnparsed ==
    /\ trace["r1"] = WeatherPath /\ pc["r1"] = "END"
    /\ GeoOf("r1").out.raised
    /\ trace["r2"] = WeatherPath /\ pc["r2"] = "END"
    /\ CallsOf("r2", "onecall") # {}
    /\ ~WxOf("r2").out.raised /\ WxOf("r2").out.value = WxTextTemp

(***************************************************************************)
(* C5 as the specification words it: every field is written at most once   *)
(* per run, Question never, Route exactly once and only by decision,       *)
(* Context only by the branch node that runs, Answer only by answer.       *)
(***************************************************************************)
C5_WrittenOnce ==
    \A r \in Runs :
       /\ WritesOf(r, "question") = {}
       /\ \A key \in {"route", "context", "answer"} :
             Cardinality(WritesOf(r, key)) <= 1
       /\ Len(trace[r]) >= 1 /\ pc[r] # "failed" =>
             Cardinality(WritesOf(r, "route")) = 1
       /\ \A i \in WritesOf(r, "route") : writes[r][i].node = "decision"
       /\ \A i \in WritesOf(r, "context") : writes[r][i].node \in {"weather", "rag"}
       /\ \A i \in WritesOf(r, "answer") : writes[r][i].node = "answer"

(***************************************************************************)
(* C5, amended: a field that is set keeps its value for the rest of the    *)
(* run.  Question is never written.  Route is written first by decision    *)
(* and once more, with the same value, by the branch node that runs.       *)
(* Context is written once, by that branch node, and Answer once, by       *)
(* answer.                                                                 *)
(***************************************************************************)
C5_Writers(r) ==
    /\ WritesOf(r, "question") = {}
    /\ \A i \in WritesOf(r, "route") :
          /\ writes[r][i].node = (IF i = 1 THEN "decision" ELSE trace[r][2])
          /\ writes[r][i].node \in {"decision", "weather", "rag"}
          /\ writes[r][i].update.route = writes[r][1].update.route
    /\ WritesOf(r, "route") = {i \in DOMAIN writes[r] : i <= 2}
    /\ WritesOf(r, "context") = {i \in DOMAIN writes[r] : i = 2}
    /\ \A i \in WritesOf(r, "context") : writes[r][i].node \in {"weather", "rag"}
    /\ WritesOf(r, "answer") = {i \in DOMAIN writes[r] : i = 3}
    /\ \A i \in WritesOf(r, "answer") : writes[r][i].node = "answer"
    /\ Len(writes[r]) <= 3

C5_ValueKept(r) ==
    \A key \in DOMAIN state[r] :
       key \in DOMAIN state'[r] /\ state'[r][key] = state[r][key]

C5_FieldsKeepTheirValue ==
    /\ [](\A r \in Runs : C5_Writers(r))
    /\ [][\A r \in Runs : C5_ValueKept(r)]_vars

\* Both branch nodes have written Route a second time.
C5_RouteWrittenTwice ==
    /\ Cardinality(WritesOf("r1", "route")) = 2 /\ writes["r1"][2].node = "weather"
    /\ Cardinality(WritesOf("r2", "route")) = 2 /\ writes["r2"][2].node = "rag"
    /\ pc["r1"] = "END" /\ pc["r2"] = "END"

(***************************************************************************)
(* C6 as the specification words it: when the geocoding call of a run      *)
(* raised, the run fails only in a later node, and when it finishes it     *)
(* returns an Answer that is not the empty string.                         *)
(***************************************************************************)
GeocodeRaised(r) == CallsOf(r, "geocode") # {} /\ GeoOf(r).out.raised

C6_AnswerNeverEmpty ==
    \A r \in Runs :
       GeocodeRaised(r) =>
          /\ pc[r] = "failed" => Executed(r, "answer")
          /\ pc[r] = "END" => HasKey(r, "answer") /\ state[r].answer # ""

(***************************************************************************)
(* C6, amended: when the geocoding call of a run raised, weather returns   *)
(* all the same, Context is the fetch apology with the exception's message *)
(* (never blank), and answer runs next; the run fails only if the answer   *)
(* model call raises; a run that finishes returns an Answer, which is      *)
(* non-empty exactly when the answer model's reply holds a character that  *)
(* is not whitespace.                                                      *)
(***************************************************************************)
AnswerCallOf(r) == TheCall(r, LlmCallsOf(r, "answer"))

C6_ApologyThenModelReply ==
    \A r \in Runs :
       GeocodeRaised(r) =>
          /\ Len(trace[r]) = 2 => pc[r] = "answer" /\ error[r] = <<>>
          /\ HasKey(r, "context")
          /\ state[r].context = FetchApology \o GeoOf(r).out.msg
          /\ HasInk(state[r].context)
          /\ CallsOf(r, "onecall") = {}
          /\ pc[r] = "failed" =>
                /\ trace[r] = WeatherPath
                /\ LlmCallsOf(r, "answer") # {}
                /\ AnswerCallOf(r).out.raised
                /\ error[r] = <<AnswerCallOf(r).out.msg>>
          /\ pc[r] = "END" =>
                /\ trace[r] = WeatherPath
                /\ HasKey(r, "answer")
                /\ ~AnswerCallOf(r).out.raised
                /\ state[r].answer # "" <=>
                      HasInk(OrEmpty(AnswerCallOf(r).out.value))

\* After a geocoding failure, one run returned an empty Answer (the model
\* replied None) and the other a non-empty one.
C6_EmptyAndNonEmptyAnswers ==
    /\ GeocodeRaised("r1") /\ pc["r1"] = "END"
    /\ AnswerCallOf("r1").out.value = <<>> /\ state["r1"].answer = ""
    /\ GeocodeRaised("r2") /\ pc["r2"] = "END"
    /\ state["r2"].answer = "Paris is the capital of France."

(***************************************************************************)
(* C7: when the model call of decision raises, the run has failed with     *)
(* that exception, holds only its question, no node has written anything   *)
(* and no other node has run or made a call; when the model call of answer *)
(* raises, the run has failed with that exception and has no Answer; each  *)
(* of the two nodes makes at most one model call and no other node makes   *)
(* one; a failed run takes no further step.                                *)
(***************************************************************************)
C7_FailedAt(r) ==
    /\ \A i \in LlmCallsOf(r, "decision") :
          calls[r][i].out.raised =>
             /\ pc[r] = "failed" /\ error[r] = <<calls[r][i].out.msg>>
             /\ DOMAIN state[r] = {"question"}
             /\ writes[r] = <<>>
             /\ trace[r] = <<"decision">>
             /\ Len(calls[r]) = 1
    /\ \A i \in LlmCallsOf(r, "answer") :
          calls[r][i].out.raised =>
             /\ pc[r] = "failed" /\ error[r] = <<calls[r][i].out.msg>>
             /\ ~HasKey(r, "answer") /\ WritesOf(r, "answer") = {}
             /\ i = Len(calls[r])
    /\ Cardinality(LlmCallsOf(r, "decision")) <= 1
    /\ Cardinality(LlmCallsOf(r, "answer")) <= 1
    /\ CallsOf(r, "llm") = LlmCallsOf(r, "decision") \cup LlmCallsOf(r, "answer")
    /\ Executed(r, "decision") => LlmCallsOf(r, "decision") # {}
    /\ Executed(r, "answer") => LlmCallsOf(r, "answer") # {}

C7_FailedForGood(r) ==
    pc[r] = "failed" =>
       /\ pc'[r] = "failed" /\ state'[r] = state[r] /\ error'[r] = error[r]
       /\ trace'[r] = trace[r] /\ calls'[r] = calls[r] /\ writes'[r] = writes[r]

C7_ModelFailurePropagates ==
    /\ [](\A r \in Runs : C7_FailedAt(r))
    /\ [][\A r \in Runs : C7_FailedForGood(r)]_vars

\* One run failed in decision, the other in answer.
C7_FailedInBothNodes ==
    /\ pc["r1"] = "failed" /\ trace["r1"] = <<"decision">>
    /\ error["r1"] = <<LlmError>>
    /\ pc["r2"] = "failed" /\ Len(trace["r2"]) = 3
    /\ error["r2"] = <<LlmError>> /\ HasKey("r2", "context")

(***************************************************************************)
(* C8: when every node that is started completes (each outbound call       *)
(* returns or raises), every run ends, and stays ended: either at END,     *)
(* with Answer set and answer the last node executed, or failed with the   *)
(* exception that was raised.                                              *)
(***************************************************************************)
Terminated(r) ==
    \/ /\ pc[r] = "END"
       /\ HasKey(r, "answer")
       /\ Len(trace[r]) = 3 /\ trace[r][3] = "answer"
    \/ /\ pc[r] = "failed"
       /\ error[r] # <<>>

C8_EveryRunTerminates == \A r \in Runs : <>[]Terminated(r)

\* One run ended at END and the other with an exception.
C8_EndedBothWays ==
    /\ pc["r1"] = "END" /\ HasKey("r1", "answer")
    /\ pc["r2"] = "failed" /\ error["r2"] # <<>>

(***************************************************************************)
(* C9: a run that executes answer makes exactly one model call from it, of *)
(* two messages: a system instruction and the question as it was asked.    *)
(* When Context holds a character that is not whitespace, the instruction  *)
(* is the use-the-context one, which forbids "I don't know" and embeds     *)
(* Context unchanged; when Context is empty or blank (or absent from the   *)
(* state), it is the answer-from-own-knowledge one.  When the call         *)
(* returns, Answer is the reply without its leading and trailing           *)
(* whitespace.                                                             *)
(***************************************************************************)
\* a is s without leading and trailing whitespace.
IsTrimOf(a, s) ==
    /\ a = "" \/ (~IsSpace(SubSeq(a, 1, 1)) /\ ~IsSpace(SubSeq(a, Len(a), Len(a))))
    /\ \E i \in 0..(Len(s) - Len(a)) :
          /\ SubSeq(s, i + 1, i + Len(a)) = a
          /\ \A n \in (1..i) \cup ((i + Len(a) + 1)..Len(s)) :
                IsSpace(SubSeq(s, n, n))

Refusal == "DO NOT reply with 'I don't know'"

C9_Instruction(context, system) ==
    IF HasInk(context)
    THEN /\ system = ContextPromptHead \o context \o "\n\n"
         /\ Contains("Context:\n" \o context \o "\n\n", system)
         /\ Contains(Refusal, system)
    ELSE /\ system = PlainPrompt
         /\ ~Contains(Refusal, system)

C9_AnswerCall(r, call) ==
    /\ Len(call.messages) = 2
    /\ call.messages[1].role = "system"
    /\ call.messages[2] = [role |-> "human", content |-> state[r].question]
    /\ C9_Instruction(state[r].context, call.messages[1].content)
    /\ ~call.out.raised =>
          /\ HasKey(r, "answer")
          /\ IsTrimOf(state[r].answer, OrEmpty(call.out.value))

C9_OneAnswerCall ==
    /\ \A r \in Runs :
          /\ Cardinality(LlmCallsOf(r, "answer")) =
                (IF Executed(r, "answer") THEN 1 ELSE 0)
          /\ HasKey(r, "answer") => Executed(r, "answer")
          /\ Executed(r, "answer") => C9_AnswerCall(r, AnswerCallOf(r))
    /\ \A q \in Questions :
          answer_node([question |-> q], Returned(<<"ok">>)).calls
             = <<LlmCall("answer", PlainPrompt, q, Returned(<<"ok">>))>>

\* One run answered from a blank Context, the other from a Context with text
\* and a reply that had to be trimmed.
C9_BlankAndFullContext ==
    /\ pc["r1"] = "END" /\ state["r1"].context = " \n"
    /\ AnswerCallOf("r1").messages[1].content = PlainPrompt
    /\ pc["r2"] = "END" /\ HasInk(state["r2"].context)
    /\ AnswerCallOf("r2").out.value = <<" Paris is the capital of France.\n">>
    /\ state["r2"].answer = "Paris is the capital of France."

(***************************************************************************)
(* C10: for every index, question and k up to MaxK, retrieve_context gives *)
(* the passages the index returns for (question, k), which are at most k:  *)
(* the first passage's text, then for each further passage a blank line    *)
(* ("\n\n") and its text, in the index's order, and nothing else; it is    *)
(* "" when the index returns none.  A run that executes rag searches once, *)
(* with its question and k = 5, and when the search returns, Context is    *)
(* that string for the passages returned ("" for none).                    *)
(***************************************************************************)
MaxK == 6

RECURSIVE Offset(_, _)
\* Where passage i starts in the joined text, counted from 0.
Offset(docs, i) ==
    IF i = 1 THEN 0
    ELSE Offset(docs, i - 1) + Len(docs[i - 1].page_content) + 2

JoinedLen(docs) ==
    IF Len(docs) = 0 THEN 0
    ELSE Offset(docs, Len(docs)) + Len(docs[Len(docs)].page_content)

IsJoinOf(text, docs) ==
    /\ Len(text) = JoinedLen(docs)
    /\ \A i \in 1..Len(docs) :
          /\ Slice(text, Offset(docs, i) + 1,
                   Offset(docs, i) + Len(docs[i].page_content))
                = docs[i].page_content
          /\ i < Len(docs) =>
                Slice(text, Offset(docs, i) + Len(docs[i].page_content) + 1,
                      Offset(docs, i) + Len(docs[i].page_content) + 2) = "\n\n"

C10_RetrieveJoins ==
    \A s \in Stores, q \in Questions, k \in 0..MaxK :
       /\ Len(similarity_search(s, q, k)) <= k
       /\ IsJoinOf(retrieve_context(s, q, k), similarity_search(s, q, k))
       /\ Len(similarity_search(s, q, k)) = 0 => retrieve_context(s, q, k) = ""

C10_RagContext(r, search) ==
    /\ search.query = state[r].question /\ search.k = 5
    /\ ~search.out.raised =>
          /\ Len(writes[r]) >= 2 /\ writes[r][2].node = "rag"
          /\ IsJoinOf(writes[r][2].update.context, search.out.value)
          /\ state[r].context = writes[r][2].update.context
          /\ Len(search.out.value) <= 5
          /\ Len(search.out.value) = 0 => state[r].context = ""
          /\ Len(trace[r]) = 2 => pc[r] = "answer" /\ error[r] = <<>>

C10_ContextIsJoinedPassages ==
    /\ C10_RetrieveJoins
    /\ \A r \in Runs :
          /\ Cardinality(CallsOf(r, "search")) =
                (IF Executed(r, "rag") THEN 1 ELSE 0)
          /\ Executed(r, "rag") =>
                C10_RagContext(r, TheCall(r, CallsOf(r, "search")))

\* A run's search returned five of seven passages, a repeated one among them,
\* and rag has set Context.
C10_FivePassagesJoined ==
    /\ Len(vector_store) = 7
    /\ trace["r1"] = RagPath /\ CallsOf("r1", "search") # {}
    /\ ~TheCall("r1", CallsOf("r1", "search")).out.raised
    /\ Len(TheCall("r1", CallsOf("r1", "search")).out.value) = 5
    /\ TheCall("r1", CallsOf("r1", "search")).out.value[1]
          = TheCall("r1", CallsOf("r1", "search")).out.value[2]
    /\ Contains("Rome.\n\nRome", state["r1"].context)

(***************************************************************************)
(* The queries of CityQueries with what re.search gives for each pattern   *)
(* on the lowercased query (<<>> is no match) and the city returned when   *)
(* one of them matches.                                                    *)
(***************************************************************************)
CityCase(q, p1, p2, city) == [q |-> q, p1 |-> p1, p2 |-> p2, city |-> city]

CityCases ==
    {CityCase("What is the weather in Paris today?",
              <<"paris">>, <<"what is the">>, <<"Paris">>),
     CityCase("tell me the weather in New York now",
              <<"new york">>, <<"tell me the">>, <<"New York">>),
     CityCase("Hyderabad weather now", <<>>, <<"hyderabad">>, <<"Hyderabad">>),
     CityCase("What's up?", <<>>, <<>>, <<>>),
     CityCase("what is the weather in hyderabad?",
              <<"hyderabad">>, <<"what is the">>, <<"Hyderabad">>),
     CityCase("Berlin weather", <<"weather">>, <<"berlin">>, <<"Weather">>),
     CityCase("weather in  Pune", <<" pune">>, <<>>, <<"Pune">>),
     CityCase(" Delhi weather", <<>>, <<" delhi">>, <<"Delhi">>),
     CityCase("WEATHER", <<>>, <<>>, <<>>),
     CityCase("rain in 2024", <<>>, <<>>, <<>>)}

CaseOf(q) == CHOOSE c \in CityCases : c.q = q

\* A default city that lower() and title() would both change.
OtherDefault == "hyDERabad"

\* The model's two searches give the captures of the case, and
\* extract_city_name its city, or the default given.
C11_CaseIsComputed(c) ==
    /\ SearchIn(Lower(c.q)) = c.p1
    /\ SearchBeforeWeather(Lower(c.q)) = c.p2
    /\ extract_city_name(c.q, OtherDefault) =
          (IF c.city = <<>> THEN OtherDefault ELSE c.city[1])

(***************************************************************************)
(* C11 as the specification words it: the city fetch_weather_for_city      *)
(* geocodes is the capture of pattern 1 title-cased when pattern 1         *)
(* matches, also when pattern 2 matches; the capture of pattern 2          *)
(* title-cased when only pattern 2 matches; the default city otherwise.    *)
(***************************************************************************)
C11_TitleCasedCapture ==
    \A r \in Runs :
       CallsOf(r, "geocode") # {} =>
          GeoOf(r).city =
             (IF CaseOf(state[r].question).p1 # <<>>
              THEN Title(CaseOf(state[r].question).p1[1])
              ELSE IF CaseOf(state[r].question).p2 # <<>>
              THEN Title(CaseOf(state[r].question).p2[1])
              ELSE SignatureCity)

(***************************************************************************)
(* C11, amended: the city is the capture of pattern 1, without its leading *)
(* and trailing whitespace and title-cased, whenever pattern 1 matches,    *)
(* also when pattern 2 matches; the capture of pattern 2, so stripped and  *)
(* title-cased, when only pattern 2 matches; the default city as it was    *)
(* given when neither matches.  fetch_weather_for_city geocodes the city   *)
(* so extracted from its query.                                            *)
(***************************************************************************)
\* city is the capture without surrounding whitespace, title-cased.
IsTitledTrimOf(city, capture) ==
    /\ IsTrimOf(Lower(city), capture)
    /\ city = Title(Lower(city))

C11_CityOfCases ==
    /\ {c.q : c \in CityCases} = CityQueries
    /\ \A c \in CityCases :
          /\ C11_CaseIsComputed(c)
          /\ c.p1 # <<>> =>
                c.city # <<>> /\ IsTitledTrimOf(c.city[1], c.p1[1])
          /\ c.p1 = <<>> /\ c.p2 # <<>> =>
                c.city # <<>> /\ IsTitledTrimOf(c.city[1], c.p2[1])
          /\ c.p1 = <<>> /\ c.p2 = <<>> => c.city = <<>>

C11_FirstPatternWins ==
    /\ C11_CityOfCases
    /\ \A r \in Runs :
          /\ Len(trace[r]) = 1 => CallsOf(r, "geocode") # {}
          /\ CallsOf(r, "geocode") # {} =>
                GeoOf(r).city =
                   (IF CaseOf(state[r].question).city = <<>> THEN SignatureCity
                    ELSE CaseOf(state[r].question).city[1])

\* One call geocoded pattern 1's capture for a query both patterns match,
\* the other pattern 2's capture, stripped, for a query only it matches.
C11_BothPatternsSeen ==
    /\ state["r1"].question = "Berlin weather"
    /\ CallsOf("r1", "geocode") # {} /\ GeoOf("r1").city = "Weather"
    /\ state["r2"].question = " Delhi weather"
    /\ CallsOf("r2", "geocode") # {} /\ GeoOf("r2").city = "Delhi"

(***************************************************************************)
(* C12: fetch_weather_for_city fails with a ValueError whenever the        *)
(* geocoding response is empty or has neither expected shape (a list of    *)
(* objects exposing latitude and longitude fields, or a bare (lat, lon)    *)
(* pair), and the current-conditions endpoint is then never called; the    *)
(* current-conditions call is made only after geocoding returned a         *)
(* response of an expected shape, with the coordinates taken from it.      *)
(***************************************************************************)
\* A list of objects that each expose lat and lon
C12_ListOfCoordinates(data) ==
    /\ data.py = "list" /\ Len(data.items) > 0
    /\ \A i \in DOMAIN data.items :
          /\ data.items[i].py = "dict"
          /\ {"lat", "lon"} \subseteq DOMAIN data.items[i].d

C12_BarePair(data) == data.py = "tuple" /\ Len(data.members) = 2

C12_ExpectedShape(data) == C12_ListOfCoordinates(data) \/ C12_BarePair(data)

\* The coordinates of a response of an expected shape
C12_CoordinatesOf(data) ==
    IF C12_BarePair(data) THEN <<data.members[1], data.members[2]>>
    ELSE <<data.items[1].d.lat, data.items[1].d.lon>>

C12_CallHasEnded(r) == trace[r] = <<"fetch_weather_for_city">>

C12_ValueErrorWithoutFetch(r) ==
    /\ pc[r] = "failed"
    /\ error[r] # <<>> /\ error[r][1] = "ValueError"
    /\ CallsOf(r, "onecall") = {}

C12_FetchedAt(r, ll) ==
    /\ WxOf(r).lat = <<ll[1]>>
    /\ WxOf(r).lon = <<ll[2]>>

C12_ValueErrorUnlessExpectedShape ==
    \A r \in Runs :
       C12_CallHasEnded(r) =>
          /\ CallsOf(r, "geocode") # {}
          /\ ~GeoOf(r).out.raised
               /\ (GeoEmpty(GeoOf(r).out.value)
                     \/ ~C12_ExpectedShape(GeoOf(r).out.value))
                => C12_ValueErrorWithoutFetch(r)
          /\ CallsOf(r, "onecall") # {} =>
                /\ ~GeoOf(r).out.raised
                /\ C12_ExpectedShape(GeoOf(r).out.value)
                /\ C12_FetchedAt(r, C12_CoordinatesOf(GeoOf(r).out.value))

(***************************************************************************)
(* C13: runs carry no hidden state.  However two runs on the one compiled  *)
(* pipeline interleave, the record of each run is what its own nodes make  *)
(* of its own question and of the replies its own outbound calls received: *)
(* Route of the reply to its decision call, Context of the replies to its  *)
(* geocoding and current-conditions calls or to its search, Answer of the  *)
(* reply to its answer call; no field comes from the other run, and every  *)
(* call of a run carries that run's question.  A reply to the classifier   *)
(* that does not hold "weather" gives the route "pdf", each time.          *)
(***************************************************************************)
C13_DecisionCallOf(r) == TheCall(r, LlmCallsOf(r, "decision"))

\* The record of run r is its question and the updates its own nodes
\* returned, merged in the order they returned them.
C13_MergedWrites(r) ==
    CASE Len(writes[r]) = 0 -> [question |-> state[r].question]
      [] Len(writes[r]) = 1 ->
            Merge([question |-> state[r].question], writes[r][1].update)
      [] Len(writes[r]) = 2 ->
            Merge(Merge([question |-> state[r].question], writes[r][1].update),
                  writes[r][2].update)
      [] OTHER ->
            Merge(Merge(Merge([question |-> state[r].question],
                              writes[r][1].update),
                        writes[r][2].update),
                  writes[r][3].update)

\* The update of the branch node the run executed, from the replies logged.
C13_BranchUpdate(r) ==
    IF trace[r][2] = "weather"
    THEN weather_node([question |-> state[r].question], GeoOf(r).out,
                      IF CallsOf(r, "onecall") = {} THEN Raised("")
                      ELSE WxOf(r).out).update
    ELSE [context |->
             RagContext(JoinContents(TheCall(r, CallsOf(r, "search")).out.value)),
          route |-> "pdf"]

\* Each update of run r is what the node makes of the replies to r's calls.
C13_OwnWrites(r) ==
    /\ Len(writes[r]) >= 1 =>
          writes[r][1].update =
             [route |-> RouteOfReply(C13_DecisionCallOf(r).out.value)]
    /\ Len(writes[r]) >= 2 => writes[r][2].update = C13_BranchUpdate(r)
    /\ Len(writes[r]) >= 3 =>
          writes[r][3].update =
             [answer |-> Strip(OrEmpty(AnswerCallOf(r).out.value))]

\* Every call of run r was made for r's question.
C13_OwnCalls(r) ==
    \A i \in DOMAIN calls[r] :
       CASE calls[r][i].svc = "llm" ->
               calls[r][i].messages[2].content = state[r].question
         [] calls[r][i].svc = "search" -> calls[r][i].query = state[r].question
         [] calls[r][i].svc = "geocode" ->
               calls[r][i].city = CityTable[state[r].question]
         [] OTHER -> CallsOf(r, "geocode") # {}

C13_Ambiguous(content) == ~OccursAnyCase("weather", OrEmpty(content))

C13_Decided(r) ==
    /\ LlmCallsOf(r, "decision") # {}
    /\ ~C13_DecisionCallOf(r).out.raised

C13_RunsShareNothing ==
    /\ \A r \in Runs :
          /\ state[r] = C13_MergedWrites(r)
          /\ C13_OwnWrites(r)
          /\ C13_OwnCalls(r)
          /\ C13_Decided(r) /\ C13_Ambiguous(C13_DecisionCallOf(r).out.value)
                => DecidedRoute(r) = "pdf"
    /\ \A r, o \in Runs :
          /\ C13_Decided(r) /\ C13_Decided(o)
          /\ C13_DecisionCallOf(r) = C13_DecisionCallOf(o)
          => DecidedRoute(r) = DecidedRoute(o)

\* Two runs of one question got the same ambiguous reply from the classifier
\* and both took the route pdf; their answers are those of their own calls.
C13_SameAmbiguousInputTwice ==
    /\ state["r1"].question = state["r2"].question
    /\ pc["r1"] = "END" /\ pc["r2"] = "END"
    /\ C13_DecisionCallOf("r1").out = Returned(<<"weathe r">>)
    /\ C13_DecisionCallOf("r2").out = Returned(<<"weathe r">>)
    /\ state["r1"].route = "pdf" /\ state["r2"].route = "pdf"
    /\ state["r1"].answer = "" /\ state["r2"].answer # ""
====
